---- MODULE Spec2Model ----
(***************************************************************************)
(* Access-controlled trip store of the travel-itinerary application.       *)
(*                                                                         *)
(* The state is the content of the four tables of the schema migration     *)
(* (profiles, itineraries, collaborators, activities).  Every write is one *)
(* statement issued by an authenticated principal (auth.uid()) and is      *)
(* decided by the row-level-security policies in force after the second    *)
(* migration, by the table constraints (UNIQUE, FOREIGN KEY) and by the    *)
(* ON DELETE CASCADE rules.  A sub-query inside a policy is evaluated over *)
(* the table it names, as the policy text reads.                           *)
(*                                                                         *)
(* A statement behaves as PostgreSQL applies policies:                     *)
(*   - a row failing the SELECT or the command's USING clause is skipped   *)
(*     (0 rows, no error);                                                 *)
(*   - a new row failing a WITH CHECK clause aborts the statement (42501); *)
(*   - a UNIQUE violation aborts it with 23505.                            *)
(* For every statement an operator ...Result gives its outcome in the      *)
(* current state (the table after it, the rows affected, the SQLSTATE);    *)
(* the action applies that outcome, so a statement that affects no row     *)
(* leaves every table as it was.                                           *)
(***************************************************************************)
EXTENDS Integers, FiniteSets, Sequences, TLC

\* ---------------------------------------------------------------- bounds
MaxItineraries == 2
MaxCollaborators == 2
MaxActivities == 1
MaxClock == 2
MaxSessions == 2
MaxTyped == 3

\* the principals: the values of auth.uid() a verified token can carry
Principals == {"ann", "bob", "cy"}
\* values of itineraries.name and profiles.display_name
Names == {"a", "b"}
\* a text is the sequence of its characters
\* values of profiles.email: the addresses a, b and c, and A as it was typed
Emails == {<<"a">>, <<"b">>, <<"c">>, <<"A">>}
\* the address each principal signed up with
EmailOf == [p \in Principals |->
               CASE p = "ann" -> <<"a">> [] p = "bob" -> <<"b">> [] OTHER -> <<"c">>]
\* what can be typed into the email field of the collaborator form
TypedChars == {"a", "b", "c", "A", " "}
Typed == UNION {[1..n -> TypedChars] : n \in 0..MaxTyped}
\* the roles the collaborator form offers
FormRoles == {"viewer", "editor"}
\* collaborators.role is free text; "guest" stands for any other text
Roles == {"owner", "editor", "viewer", "guest"}

ItineraryIds == 1..MaxItineraries
CollaboratorIds == 1..MaxCollaborators
ActivityIds == 1..MaxActivities
\* values of now(), and the connections a transaction can be open on
Times == 0..MaxClock
Sessions == 1..MaxSessions
\* no transaction open on a connection; a column absent from an update
NoTxn == -1
Unset == -1

\* SQLSTATE codes
RlsViolation == "42501"
UniqueViolation == "23505"
ForeignKeyViolation == "23503"
NoError == "00000"

VARIABLES
    profiles,       \* set of [id, email, display_name]
    itineraries,    \* set of [id, name, created_by, updated_at]
    collaborators,  \* set of [id, itinerary_id, user_id, role]
    activities,     \* set of [id, itinerary_id, created_by]
    users,          \* auth.users: the ids of the principals that exist
    now,            \* the clock of the database server
    txn,            \* per connection, now() of its open transaction or NoTxn
    request,        \* the request the suggestion function is serving
    response        \* its response to that request

vars == <<profiles, itineraries, collaborators, activities, users, now, txn,
          request, response>>

\* gen_random_uuid(): an id no row of the table has
HasFreshId(table, ids) == \E i \in ids : \A r \in table : r.id # i
FreshId(table, ids) ==
    CHOOSE i \in ids :
        /\ \A r \in table : r.id # i
        /\ \A j \in ids : (\A r \in table : r.id # j) => i <= j

\* outcome of a statement: the table after it, rows affected, SQLSTATE
Result(table, rows, code) == [table |-> table, rows |-> rows, code |-> code]

\* ------------------------------------------------------------------ texts
UpperCase == <<"A", "B", "C", "D", "E", "F", "G", "H", "I", "J", "K", "L", "M",
               "N", "O", "P", "Q", "R", "S", "T", "U", "V", "W", "X", "Y", "Z">>
LowerCase == <<"a", "b", "c", "d", "e", "f", "g", "h", "i", "j", "k", "l", "m",
               "n", "o", "p", "q", "r", "s", "t", "u", "v", "w", "x", "y", "z">>

\* String.prototype.toLowerCase
ToLowerCase(str) ==
    [k \in 1..Len(str) |->
        IF \E u \in 1..Len(UpperCase) : UpperCase[u] = str[k]
        THEN LowerCase[CHOOSE u \in 1..Len(UpperCase) : UpperCase[u] = str[k]]
        ELSE str[k]]

\* String.prototype.trim: white space dropped at both ends
RECURSIVE Trim(_)
Trim(str) ==
    IF str = <<>> THEN str
    ELSE IF Head(str) = " " THEN Trim(Tail(str))
    ELSE IF str[Len(str)] = " " THEN Trim(SubSeq(str, 1, Len(str) - 1))
    ELSE str

\* String.prototype.includes: part occurs in str as a run of characters
Includes(str, part) ==
    \E k \in 0..(Len(str) - Len(part)) :
        SubSeq(str, k + 1, k + Len(part)) = part

\* mutant: a column declared without a REFERENCES clause
NoForeignKey(id) == TRUE

\* REFERENCES auth.users(id): the key is the id of an existing principal
ReferencesUsers(id) == id \in users

\* REFERENCES itineraries(id): the key is the id of a row of itineraries
ReferencesItineraries(id) == \E i \in itineraries : i.id = id

\* ------------------------------------------------------ itineraries policies
\* mutant: the role test of the update policy pasted into the select policy
SelectUsingWithRoleTest(uid, row) ==
    \/ row.created_by = uid
    \/ \E c \in collaborators :
          /\ c.itinerary_id = row.id
          /\ c.user_id = uid
          /\ c.role \in {"owner", "editor"}

\* mutant: a SELECT policy USING (true), as the one on profiles
SelectUsingEveryone(uid, row) == TRUE

ItinerariesSelectUsing(uid, row) ==
    \/ row.created_by = uid
    \/ \E c \in collaborators : c.itinerary_id = row.id /\ c.user_id = uid

ItinerariesInsertCheck(uid, row) == row.created_by = uid

\* mutant: the collaborator branch of the update policy left out
UpdateUsingCreatorOnly(uid, row) == row.created_by = uid

ItinerariesUpdateUsing(uid, row) ==
    \/ row.created_by = uid
    \/ \E c \in collaborators :
          /\ c.itinerary_id = row.id
          /\ c.user_id = uid
          /\ c.role \in {"owner", "editor"}

ItinerariesUpdateCheck(uid, row) ==
    \/ row.created_by = uid
    \/ \E c \in collaborators :
          /\ c.itinerary_id = row.id
          /\ c.user_id = uid
          /\ c.role \in {"owner", "editor"}

\* mutant: the delete policy written like the update policy
DeleteUsingLikeUpdate(uid, row) ==
    \/ row.created_by = uid
    \/ \E c \in collaborators :
          /\ c.itinerary_id = row.id
          /\ c.user_id = uid
          /\ c.role \in {"owner", "editor"}

ItinerariesDeleteUsing(uid, row) == row.created_by = uid

\* loadItineraries / loadItinerary: the rows a select returns to uid
SelectItineraries(uid) == {r \in itineraries : ItinerariesSelectUsing(uid, r)}

\* ---------------------------------------------------- collaborators policies
CollaboratorsSelectUsing(uid, row) ==
    \E i \in itineraries :
        /\ i.id = row.itinerary_id
        /\ \/ i.created_by = uid
           \/ \E c \in collaborators : c.itinerary_id = i.id /\ c.user_id = uid

\* mutant: editors and owner-role collaborators may add collaborators
CollaboratorsInsertCheckEditors(uid, row) ==
    \E i \in itineraries :
        /\ i.id = row.itinerary_id
        /\ \/ i.created_by = uid
           \/ \E c \in collaborators :
                 /\ c.itinerary_id = i.id
                 /\ c.user_id = uid
                 /\ c.role \in {"owner", "editor"}

\* mutant: every principal may add collaborators to an existing itinerary
CollaboratorsInsertCheckAnyone(uid, row) ==
    \E i \in itineraries : i.id = row.itinerary_id

CollaboratorsInsertCheck(uid, row) ==
    \E i \in itineraries : i.id = row.itinerary_id /\ i.created_by = uid

\* mutant: holders of an owner row may remove collaborators too
CollaboratorsDeleteUsingOwnerRole(uid, row) ==
    \E i \in itineraries :
        /\ i.id = row.itinerary_id
        /\ \/ i.created_by = uid
           \/ \E c \in collaborators :
                 /\ c.itinerary_id = i.id
                 /\ c.user_id = uid
                 /\ c.role = "owner"

CollaboratorsDeleteUsing(uid, row) ==
    \E i \in itineraries : i.id = row.itinerary_id /\ i.created_by = uid

CollaboratorsUpdateUsing(uid, row) ==
    \E i \in itineraries : i.id = row.itinerary_id /\ i.created_by = uid

CollaboratorsUpdateCheck(uid, row) ==
    \E i \in itineraries : i.id = row.itinerary_id /\ i.created_by = uid

\* mutant: the table declared without UNIQUE(itinerary_id, user_id)
NoUniqueConstraint(table, row) == FALSE

\* UNIQUE(itinerary_id, user_id): row collides with a row of table
CollaboratorsUniqueViolated(table, row) ==
    \E c \in table : c.itinerary_id = row.itinerary_id /\ c.user_id = row.user_id

\* loadCollaborators: select(...).eq('itinerary_id', itineraryId)
SelectCollaborators(uid, itineraryId) ==
    {c \in collaborators :
        c.itinerary_id = itineraryId /\ CollaboratorsSelectUsing(uid, c)}

\* ------------------------------------------------------- activities policies
\* mutant: the role test of the write policies pasted into the select policy
ActivitiesSelectUsingWithRoleTest(uid, row) ==
    \E i \in itineraries :
        /\ i.id = row.itinerary_id
        /\ \/ i.created_by = uid
           \/ \E c \in collaborators :
                 /\ c.itinerary_id = i.id
                 /\ c.user_id = uid
                 /\ c.role \in {"owner", "editor"}

ActivitiesSelectUsing(uid, row) ==
    \E i \in itineraries :
        /\ i.id = row.itinerary_id
        /\ \/ i.created_by = uid
           \/ \E c \in collaborators : c.itinerary_id = i.id /\ c.user_id = uid

ActivitiesInsertCheck(uid, row) ==
    \E i \in itineraries :
        /\ i.id = row.itinerary_id
        /\ \/ i.created_by = uid
           \/ \E c \in collaborators :
                 /\ c.itinerary_id = row.itinerary_id
                 /\ c.user_id = uid
                 /\ c.role \in {"owner", "editor"}

ActivitiesUpdateUsing(uid, row) ==
    \E i \in itineraries :
        /\ i.id = row.itinerary_id
        /\ \/ i.created_by = uid
           \/ \E c \in collaborators :
                 /\ c.itinerary_id = i.id
                 /\ c.user_id = uid
                 /\ c.role \in {"owner", "editor"}

\* mutant: the activities update policy declared without WITH CHECK
ActivitiesUpdateCheckOmitted(uid, row) == TRUE

ActivitiesUpdateCheck(uid, row) ==
    \E i \in itineraries :
        /\ i.id = row.itinerary_id
        /\ \/ i.created_by = uid
           \/ \E c \in collaborators :
                 /\ c.itinerary_id = i.id
                 /\ c.user_id = uid
                 /\ c.role \in {"owner", "editor"}

\* mutant: the role test of the activities delete policy left out
ActivitiesDeleteUsingAnyRole(uid, row) ==
    \E i \in itineraries :
        /\ i.id = row.itinerary_id
        /\ \/ i.created_by = uid
           \/ \E c \in collaborators : c.itinerary_id = i.id /\ c.user_id = uid

ActivitiesDeleteUsing(uid, row) ==
    \E i \in itineraries :
        /\ i.id = row.itinerary_id
        /\ \/ i.created_by = uid
           \/ \E c \in collaborators :
                 /\ c.itinerary_id = i.id
                 /\ c.user_id = uid
                 /\ c.role \in {"owner", "editor"}

\* loadActivities: select('*').eq('itinerary_id', itineraryId)
SelectActivities(uid, itineraryId) ==
    {a \in activities :
        a.itinerary_id = itineraryId /\ ActivitiesSelectUsing(uid, a)}

\* ---------------------------------------------------------- itineraries ops
\* handleCreate: insert({..., created_by}).select().single(); updated_at takes
\* its default now()
InsertItineraryResult(uid, name, created_by) ==
    LET row == [id |-> FreshId(itineraries, ItineraryIds),
                name |-> name, created_by |-> created_by, updated_at |-> now]
    IN IF ~ItinerariesInsertCheck(uid, row)
       THEN Result(itineraries, 0, RlsViolation)
       ELSE IF ~ReferencesUsers(row.created_by)
       THEN Result(itineraries, 0, ForeignKeyViolation)
       ELSE Result(itineraries \cup {row}, 1, NoError)

InsertItinerary(uid, name, created_by) ==
    /\ HasFreshId(itineraries, ItineraryIds)
    /\ LET res == InsertItineraryResult(uid, name, created_by)
       IN /\ itineraries' = res.table
    /\ UNCHANGED <<profiles, collaborators, activities>>
    /\ UNCHANGED <<users, now, txn, request, response>>

\* mutant: a trigger function that returns NEW as the statement built it
ReturnNew(new, t) == new

\* update_updated_at_column(), BEFORE UPDATE FOR EACH ROW, in a transaction
\* whose now() is t
UpdateUpdatedAtColumn(new, t) == [new EXCEPT !.updated_at = t]

\* mutant: the rows named by the statement, the policies not applied
TargetsUnfiltered(uid, ids) == {r \in itineraries : r.id \in ids}

\* the rows an update ... where id in ids acts on: the rows named that pass
\* the USING clauses of the SELECT and the UPDATE policy; the others are
\* skipped
UpdateTargets(uid, ids) ==
    {r \in itineraries :
        /\ r.id \in ids
        /\ ItinerariesSelectUsing(uid, r)
        /\ ItinerariesUpdateUsing(uid, r)}

\* update({name, created_by, updated_at}).in('id', ids) in a transaction
\* whose now() is t; updated_at is Unset when the client leaves the column out
UpdateItinerariesAt(uid, ids, name, created_by, updated_at, t) ==
    LET target == UpdateTargets(uid, ids)
        set(r) == [r EXCEPT !.name = name, !.created_by = created_by,
                            !.updated_at = IF updated_at = Unset THEN @
                                           ELSE updated_at]
        new(r) == UpdateUpdatedAtColumn(set(r), t)
    IN IF target = {}
       THEN Result(itineraries, 0, NoError)
       ELSE IF \E r \in target : ~ItinerariesUpdateCheck(uid, new(r))
       THEN Result(itineraries, 0, RlsViolation)
       ELSE IF \E r \in target : ~ReferencesUsers(new(r).created_by)
       THEN Result(itineraries, 0, ForeignKeyViolation)
       ELSE Result((itineraries \ target) \cup {new(r) : r \in target},
                   Cardinality(target), NoError)

\* update({name, created_by, updated_at}).eq('id', id) in a transaction whose
\* now() is t
UpdateItineraryAt(uid, id, name, created_by, updated_at, t) ==
    UpdateItinerariesAt(uid, {id}, name, created_by, updated_at, t)

\* update({name, created_by}).eq('id', id), a transaction of its own
UpdateItineraryResult(uid, id, name, created_by) ==
    UpdateItineraryAt(uid, id, name, created_by, Unset, now)

UpdateItinerary(uid, id, name, created_by) ==
    /\ LET res == UpdateItineraryResult(uid, id, name, created_by)
       IN /\ itineraries' = res.table
    /\ UNCHANGED <<profiles, collaborators, activities>>
    /\ UNCHANGED <<users, now, txn, request, response>>

\* update({name, created_by}).in('id', ids), a transaction of its own
UpdateItinerariesResult(uid, ids, name, created_by) ==
    UpdateItinerariesAt(uid, ids, name, created_by, Unset, now)

UpdateItineraries(uid, ids, name, created_by) ==
    /\ LET res == UpdateItinerariesResult(uid, ids, name, created_by)
       IN /\ itineraries' = res.table
    /\ UNCHANGED <<profiles, collaborators, activities>>
    /\ UNCHANGED <<users, now, txn, request, response>>

\* delete().eq('id', id)
DeleteItineraryResult(uid, id) ==
    LET target == {r \in itineraries :
                      /\ r.id = id
                      /\ ItinerariesSelectUsing(uid, r)
                      /\ ItinerariesDeleteUsing(uid, r)}
    IN Result(itineraries \ target, Cardinality(target), NoError)

\* mutant: the references declared without ON DELETE CASCADE
NoCascade(table, remaining) == table

\* REFERENCES itineraries(id) ON DELETE CASCADE: rows of table left once the
\* itineraries in remaining are all there is
OnDeleteCascade(table, remaining) ==
    {r \in table : \E i \in remaining : i.id = r.itinerary_id}

DeleteItinerary(uid, id) ==
    /\ LET res == DeleteItineraryResult(uid, id)
       IN /\ itineraries' = res.table
          /\ collaborators' = OnDeleteCascade(collaborators, res.table)
          /\ activities' = OnDeleteCascade(activities, res.table)
    /\ UNCHANGED profiles
    /\ UNCHANGED <<users, now, txn, request, response>>

\* --------------------------------------------------------- collaborators ops
\* handleAddCollaborator: insert({itinerary_id, user_id, role})
InsertCollaboratorResult(uid, itinerary_id, user_id, role) ==
    LET row == [id |-> FreshId(collaborators, CollaboratorIds),
                itinerary_id |-> itinerary_id, user_id |-> user_id, role |-> role]
    IN IF ~CollaboratorsInsertCheck(uid, row)
       THEN Result(collaborators, 0, RlsViolation)
       ELSE IF CollaboratorsUniqueViolated(collaborators, row)
       THEN Result(collaborators, 0, UniqueViolation)
       ELSE IF ~(ReferencesItineraries(row.itinerary_id) /\ ReferencesUsers(row.user_id))
       THEN Result(collaborators, 0, ForeignKeyViolation)
       ELSE Result(collaborators \cup {row}, 1, NoError)

InsertCollaborator(uid, itinerary_id, user_id, role) ==
    /\ HasFreshId(collaborators, CollaboratorIds)
    /\ LET res == InsertCollaboratorResult(uid, itinerary_id, user_id, role)
       IN /\ collaborators' = res.table
    /\ UNCHANGED <<profiles, itineraries, activities>>
    /\ UNCHANGED <<users, now, txn, request, response>>

\* update({itinerary_id, user_id, role}).eq('id', id)
UpdateCollaboratorResult(uid, id, itinerary_id, user_id, role) ==
    LET target == {c \in collaborators :
                      /\ c.id = id
                      /\ CollaboratorsSelectUsing(uid, c)
                      /\ CollaboratorsUpdateUsing(uid, c)}
        new(c) == [c EXCEPT !.itinerary_id = itinerary_id,
                            !.user_id = user_id, !.role = role]
    IN IF target = {}
       THEN Result(collaborators, 0, NoError)
       ELSE IF \E c \in target : ~CollaboratorsUpdateCheck(uid, new(c))
       THEN Result(collaborators, 0, RlsViolation)
       ELSE IF \E c \in target :
                   CollaboratorsUniqueViolated(collaborators \ target, new(c))
       THEN Result(collaborators, 0, UniqueViolation)
       ELSE IF \E c \in target :
                   ~(ReferencesItineraries(new(c).itinerary_id)
                        /\ ReferencesUsers(new(c).user_id))
       THEN Result(collaborators, 0, ForeignKeyViolation)
       ELSE Result((collaborators \ target) \cup {new(c) : c \in target},
                   Cardinality(target), NoError)

UpdateCollaborator(uid, id, itinerary_id, user_id, role) ==
    /\ LET res == UpdateCollaboratorResult(uid, id, itinerary_id, user_id, role)
       IN /\ collaborators' = res.table
    /\ UNCHANGED <<profiles, itineraries, activities>>
    /\ UNCHANGED <<users, now, txn, request, response>>

\* handleRemoveCollaborator: delete().eq('id', collaboratorId)
DeleteCollaboratorResult(uid, id) ==
    LET target == {c \in collaborators :
                      /\ c.id = id
                      /\ CollaboratorsSelectUsing(uid, c)
                      /\ CollaboratorsDeleteUsing(uid, c)}
    IN Result(collaborators \ target, Cardinality(target), NoError)

DeleteCollaborator(uid, id) ==
    /\ LET res == DeleteCollaboratorResult(uid, id)
       IN /\ collaborators' = res.table
    /\ UNCHANGED <<profiles, itineraries, activities>>
    /\ UNCHANGED <<users, now, txn, request, response>>

\* ------------------------------------------------------------ activities ops
\* insert({itinerary_id, created_by, ...})
InsertActivityResult(uid, itinerary_id, created_by) ==
    LET row == [id |-> FreshId(activities, ActivityIds),
                itinerary_id |-> itinerary_id, created_by |-> created_by]
    IN IF ~ActivitiesInsertCheck(uid, row)
       THEN Result(activities, 0, RlsViolation)
       ELSE IF ~(ReferencesItineraries(row.itinerary_id) /\ ReferencesUsers(row.created_by))
       THEN Result(activities, 0, ForeignKeyViolation)
       ELSE Result(activities \cup {row}, 1, NoError)

InsertActivity(uid, itinerary_id, created_by) ==
    /\ HasFreshId(activities, ActivityIds)
    /\ LET res == InsertActivityResult(uid, itinerary_id, created_by)
       IN /\ activities' = res.table
    /\ UNCHANGED <<profiles, itineraries, collaborators>>
    /\ UNCHANGED <<users, now, txn, request, response>>

\* update({itinerary_id, created_by}).eq('id', id)
UpdateActivityResult(uid, id, itinerary_id, created_by) ==
    LET target == {a \in activities :
                      /\ a.id = id
                      /\ ActivitiesSelectUsing(uid, a)
                      /\ ActivitiesUpdateUsing(uid, a)}
        new(a) == [a EXCEPT !.itinerary_id = itinerary_id,
                            !.created_by = created_by]
    IN IF target = {}
       THEN Result(activities, 0, NoError)
       ELSE IF \E a \in target : ~ActivitiesUpdateCheck(uid, new(a))
       THEN Result(activities, 0, RlsViolation)
       ELSE IF \E a \in target :
                   ~(ReferencesItineraries(new(a).itinerary_id)
                        /\ ReferencesUsers(new(a).created_by))
       THEN Result(activities, 0, ForeignKeyViolation)
       ELSE Result((activities \ target) \cup {new(a) : a \in target},
                   Cardinality(target), NoError)

UpdateActivity(uid, id, itinerary_id, created_by) ==
    /\ LET res == UpdateActivityResult(uid, id, itinerary_id, created_by)
       IN /\ activities' = res.table
    /\ UNCHANGED <<profiles, itineraries, collaborators>>
    /\ UNCHANGED <<users, now, txn, request, response>>

\* handleDeleteActivity: delete().eq('id', activityId)
DeleteActivityResult(uid, id) ==
    LET target == {a \in activities :
                      /\ a.id = id
                      /\ ActivitiesSelectUsing(uid, a)
                      /\ ActivitiesDeleteUsing(uid, a)}
    IN Result(activities \ target, Cardinality(target), NoError)

DeleteActivity(uid, id) ==
    /\ LET res == DeleteActivityResult(uid, id)
       IN /\ activities' = res.table
    /\ UNCHANGED <<profiles, itineraries, collaborators>>
    /\ UNCHANGED <<users, now, txn, request, response>>

\* ---------------------------------------------------------------- profiles
\* policies of the second migration: "Users can update own profile",
\* "Users can insert own profile"
ProfilesSelectUsing(uid, row) == TRUE

ProfilesUpdateUsing(uid, row) == uid = uid

ProfilesUpdateCheck(uid, row) == uid = uid

ProfilesInsertCheck(uid, row) == uid = uid

\* PRIMARY KEY (id): row collides with a row of table
ProfilesKeyViolated(table, row) == \E r \in table : r.id = row.id

\* insert({id, email, display_name})
InsertProfileResult(uid, id, email, display_name) ==
    LET row == [id |-> id, email |-> email, display_name |-> display_name]
    IN IF ~ProfilesInsertCheck(uid, row)
       THEN Result(profiles, 0, RlsViolation)
       ELSE IF ProfilesKeyViolated(profiles, row)
       THEN Result(profiles, 0, UniqueViolation)
       ELSE IF ~ReferencesUsers(row.id)
       THEN Result(profiles, 0, ForeignKeyViolation)
       ELSE Result(profiles \cup {row}, 1, NoError)

InsertProfile(uid, id, email, display_name) ==
    /\ profiles' = InsertProfileResult(uid, id, email, display_name).table
    /\ UNCHANGED <<itineraries, collaborators, activities>>
    /\ UNCHANGED <<users, now, txn, request, response>>

\* update({email, display_name}).eq('id', id)
UpdateProfileResult(uid, id, email, display_name) ==
    LET target == {r \in profiles :
                      /\ r.id = id
                      /\ ProfilesSelectUsing(uid, r)
                      /\ ProfilesUpdateUsing(uid, r)}
        new(r) == [r EXCEPT !.email = email, !.display_name = display_name]
    IN IF target = {}
       THEN Result(profiles, 0, NoError)
       ELSE IF \E r \in target : ~ProfilesUpdateCheck(uid, new(r))
       THEN Result(profiles, 0, RlsViolation)
       ELSE Result((profiles \ target) \cup {new(r) : r \in target},
                   Cardinality(target), NoError)

UpdateProfile(uid, id, email, display_name) ==
    /\ profiles' = UpdateProfileResult(uid, id, email, display_name).table
    /\ UNCHANGED <<itineraries, collaborators, activities>>
    /\ UNCHANGED <<users, now, txn, request, response>>

\* ------------------------------------------------------ collaborator form
\* maybeSingle(): the row, null for no row, an error for more than one
NoRow == "null"
MultipleRows == "PGRST116"

\* the messages of the form
NotFoundMessage == "User not found with this email"
SelfMessage == "You cannot add yourself as a collaborator"
AlreadyMessage == "This user is already a collaborator"
NoMessage == ""

\* from('profiles').select('id').eq('email', email.toLowerCase().trim())
\*     .maybeSingle()
SelectProfileByEmail(uid, entered) ==
    LET rows == {r \in profiles :
                    /\ ProfilesSelectUsing(uid, r)
                    /\ r.email = Trim(ToLowerCase(entered))}
    IN IF rows = {} THEN [data |-> NoRow, error |-> NoError]
       ELSE IF Cardinality(rows) = 1
       THEN [data |-> (CHOOSE r \in rows : TRUE).id, error |-> NoError]
       ELSE [data |-> NoRow, error |-> MultipleRows]

\* mutant: the form without the test for the acting principal
NeverSelf(id, uid) == FALSE

\* profile.id === user?.id
IsSelf(id, uid) == id = uid

\* handleAddCollaborator: the message shown, the insert statements sent and
\* the collaborators table afterwards; an error that is thrown is shown by
\* its own text, for which its code stands
HandleAddCollaboratorResult(uid, itineraryId, entered, role) ==
    LET profile == SelectProfileByEmail(uid, entered)
        insert == InsertCollaboratorResult(uid, itineraryId, profile.data, role)
        shown(message, inserts, table) ==
            [error |-> message, inserts |-> inserts, table |-> table]
    IN IF profile.error # NoError
       THEN shown(profile.error, 0, collaborators)
       ELSE IF profile.data = NoRow
       THEN shown(NotFoundMessage, 0, collaborators)
       ELSE IF IsSelf(profile.data, uid)
       THEN shown(SelfMessage, 0, collaborators)
       ELSE IF insert.code = UniqueViolation
       THEN shown(AlreadyMessage, 1, insert.table)
       ELSE IF insert.code # NoError
       THEN shown(insert.code, 1, insert.table)
       ELSE shown(NoMessage, 1, insert.table)

HandleAddCollaborator(uid, itineraryId, entered, role) ==
    /\ HasFreshId(collaborators, CollaboratorIds)
    /\ LET res == HandleAddCollaboratorResult(uid, itineraryId, entered, role)
       IN /\ collaborators' = res.table
    /\ UNCHANGED <<profiles, itineraries, activities>>
    /\ UNCHANGED <<users, now, txn, request, response>>

\* ------------------------------------------------- the itinerary's page
\* loadActivities: the activities of the itinerary the reader may see, kept
\* by the page as its local list
loadActivities(uid, itineraryId) == SelectActivities(uid, itineraryId)

\* handleDeleteActivity: unless the dialogue is dismissed, delete the row by
\* id and, when no error comes back, filter the activity out of the local list
HandleDeleteActivityResult(uid, activityId, local, confirmed) ==
    LET delete == DeleteActivityResult(uid, activityId)
    IN IF ~confirmed
       THEN [activities |-> local, table |-> activities]
       ELSE IF delete.code # NoError
       THEN [activities |-> local, table |-> delete.table]
       ELSE [activities |-> {a \in local : a.id # activityId},
             table |-> delete.table]

\* the button of an activity shown on the page of itineraryId is pressed
HandleDeleteActivity(uid, itineraryId, activityId, confirmed) ==
    /\ \E a \in loadActivities(uid, itineraryId) : a.id = activityId
    /\ LET res == HandleDeleteActivityResult(uid, activityId,
                       loadActivities(uid, itineraryId), confirmed)
       IN activities' = res.table
    /\ UNCHANGED <<profiles, itineraries, collaborators>>
    /\ UNCHANGED <<users, now, txn, request, response>>

\* ------------------------------------------------------------ transactions
\* the clock of the server advances
Tick ==
    /\ now < MaxClock
    /\ now' = now + 1
    /\ UNCHANGED <<profiles, itineraries, collaborators, activities, users, txn>>
    /\ UNCHANGED <<request, response>>

\* a request opens its transaction on connection s: now() is fixed for it
Begin(s) ==
    /\ txn[s] = NoTxn
    /\ txn' = [txn EXCEPT ![s] = now]
    /\ UNCHANGED <<profiles, itineraries, collaborators, activities, users, now>>
    /\ UNCHANGED <<request, response>>

\* the update of the request on connection s runs against the rows committed
\* so far and commits
UpdateItineraryIn(s, uid, id, name, created_by, updated_at) ==
    /\ txn[s] # NoTxn
    /\ LET res == UpdateItineraryAt(uid, id, name, created_by, updated_at, txn[s])
       IN /\ itineraries' = res.table
    /\ txn' = [txn EXCEPT ![s] = NoTxn]
    /\ UNCHANGED <<profiles, collaborators, activities, users, now>>
    /\ UNCHANGED <<request, response>>

\* ------------------------------------------------------------ auth.users
\* mutant: the references to auth.users declared without ON DELETE CASCADE
NoCascadeUsers(table, column, remaining) == table

\* REFERENCES auth.users(id) ON DELETE CASCADE on a column of table: the
\* rows of table left once the principals in remaining are all there is
OnDeleteCascadeUsers(table, column, remaining) ==
    {r \in table : r[column] \in remaining}

\* the account of principal id is deleted from auth.users; the rows that
\* reference it go with it, and with a deleted itinerary go its child rows
DeleteUser(id) ==
    /\ id \in users
    /\ users' = users \ {id}
    /\ profiles' = OnDeleteCascadeUsers(profiles, "id", users')
    /\ itineraries' = OnDeleteCascadeUsers(itineraries, "created_by", users')
    /\ collaborators' =
          OnDeleteCascade(OnDeleteCascadeUsers(collaborators, "user_id", users'),
                          itineraries')
    /\ activities' =
          OnDeleteCascade(OnDeleteCascadeUsers(activities, "created_by", users'),
                          itineraries')
    /\ UNCHANGED <<now, txn, request, response>>

\* ------------------------------------------ policies of the first migration
\* the policies as the schema migration created them, before the second
\* migration dropped and re-created them
ProfilesSelectUsingV1(uid, row) == TRUE

ProfilesUpdateUsingV1(uid, row) == uid = row.id

ProfilesUpdateCheckV1(uid, row) == uid = row.id

ProfilesInsertCheckV1(uid, row) == uid = row.id

ItinerariesSelectUsingV1(uid, row) ==
    \/ row.created_by = uid
    \/ \E c \in collaborators : c.itinerary_id = row.id /\ c.user_id = uid

ItinerariesInsertCheckV1(uid, row) == row.created_by = uid

ItinerariesUpdateUsingV1(uid, row) ==
    \/ row.created_by = uid
    \/ \E c \in collaborators :
          /\ c.itinerary_id = row.id
          /\ c.user_id = uid
          /\ c.role \in {"owner", "editor"}

ItinerariesUpdateCheckV1(uid, row) ==
    \/ row.created_by = uid
    \/ \E c \in collaborators :
          /\ c.itinerary_id = row.id
          /\ c.user_id = uid
          /\ c.role \in {"owner", "editor"}

ItinerariesDeleteUsingV1(uid, row) == row.created_by = uid

CollaboratorsSelectUsingV1(uid, row) ==
    \E i \in itineraries :
        /\ i.id = row.itinerary_id
        /\ \/ i.created_by = uid
           \/ \E c \in collaborators : c.itinerary_id = i.id /\ c.user_id = uid

CollaboratorsInsertCheckV1(uid, row) ==
    \E i \in itineraries : i.id = row.itinerary_id /\ i.created_by = uid

CollaboratorsDeleteUsingV1(uid, row) ==
    \E i \in itineraries : i.id = row.itinerary_id /\ i.created_by = uid

CollaboratorsUpdateUsingV1(uid, row) ==
    \E i \in itineraries : i.id = row.itinerary_id /\ i.created_by = uid

CollaboratorsUpdateCheckV1(uid, row) ==
    \E i \in itineraries : i.id = row.itinerary_id /\ i.created_by = uid

ActivitiesSelectUsingV1(uid, row) ==
    \E i \in itineraries :
        /\ i.id = row.itinerary_id
        /\ \/ i.created_by = uid
           \/ \E c \in collaborators : c.itinerary_id = i.id /\ c.user_id = uid

ActivitiesInsertCheckV1(uid, row) ==
    \E i \in itineraries :
        /\ i.id = row.itinerary_id
        /\ \/ i.created_by = uid
           \/ \E c \in collaborators :
                 /\ c.itinerary_id = i.id
                 /\ c.user_id = uid
                 /\ c.role \in {"owner", "editor"}

ActivitiesUpdateUsingV1(uid, row) ==
    \E i \in itineraries :
        /\ i.id = row.itinerary_id
        /\ \/ i.created_by = uid
           \/ \E c \in collaborators :
                 /\ c.itinerary_id = i.id
                 /\ c.user_id = uid
                 /\ c.role \in {"owner", "editor"}

ActivitiesUpdateCheckV1(uid, row) ==
    \E i \in itineraries :
        /\ i.id = row.itinerary_id
        /\ \/ i.created_by = uid
           \/ \E c \in collaborators :
                 /\ c.itinerary_id = i.id
                 /\ c.user_id = uid
                 /\ c.role \in {"owner", "editor"}

ActivitiesDeleteUsingV1(uid, row) ==
    \E i \in itineraries :
        /\ i.id = row.itinerary_id
        /\ \/ i.created_by = uid
           \/ \E c \in collaborators :
                 /\ c.itinerary_id = i.id
                 /\ c.user_id = uid
                 /\ c.role \in {"owner", "editor"}

\* ------------------------------------------------------ suggestion function
\* destinationSuggestions: the list of each key (the key 'new york' is the
\* field new_york; accented letters are written without their accent)
destinationSuggestions ==
    [paris |-> <<"Visit the Eiffel Tower at sunset for stunning views",
                 "Explore the Louvre Museum and see the Mona Lisa",
                 "Take a Seine River cruise in the evening",
                 "Walk through Montmartre and visit Sacre-Coeur",
                 "Enjoy authentic French pastries at a local boulangerie",
                 "Stroll through the Luxembourg Gardens",
                 "Visit Notre-Dame Cathedral (exterior)",
                 "Shop at the Champs-Elysees">>,
     tokyo |-> <<"Visit the historic Senso-ji Temple in Asakusa",
                 "Experience the bustling Shibuya Crossing",
                 "Explore traditional gardens at Shinjuku Gyoen",
                 "Try authentic sushi at Tsukiji Outer Market",
                 "Visit teamLab Borderless digital art museum",
                 "Take a day trip to Mount Fuji",
                 "Shop in the trendy Harajuku district",
                 "Enjoy cherry blossoms at Ueno Park (spring season)">>,
     new_york |-> <<"Visit the Statue of Liberty and Ellis Island",
                    "Walk through Central Park",
                    "See a Broadway show in Times Square",
                    "Visit the Metropolitan Museum of Art",
                    "Walk the High Line urban park",
                    "Explore the diverse neighborhoods of Brooklyn",
                    "Visit the 9/11 Memorial and Museum",
                    "Enjoy pizza at a classic NYC pizzeria">>,
     london |-> <<"Visit the Tower of London and see the Crown Jewels",
                  "Explore the British Museum",
                  "Take a ride on the London Eye",
                  "Visit Buckingham Palace and watch the Changing of the Guard",
                  "Explore the diverse food scene at Borough Market",
                  "Walk along the South Bank of the Thames",
                  "Visit the iconic Big Ben and Westminster Abbey",
                  "Explore the trendy neighborhoods of Shoreditch or Camden">>,
     default |-> <<"Research popular landmarks and attractions",
                   "Try local cuisine at highly-rated restaurants",
                   "Take a guided walking tour to learn about local history",
                   "Visit local markets for authentic experiences",
                   "Explore parks and natural areas",
                   "Check out museums and cultural sites",
                   "Ask locals for their favorite hidden gems",
                   "Book activities that showcase local culture">>]

\* the texts getDestinationKey looks for
ParisText == <<"p", "a", "r", "i", "s">>
TokyoText == <<"t", "o", "k", "y", "o">>
NewYorkText == <<"n", "e", "w", " ", "y", "o", "r", "k">>
NycText == <<"n", "y", "c">>
LondonText == <<"l", "o", "n", "d", "o", "n">>

\* mutant: the tests of getDestinationKey on the text as it was entered
AsEntered(str) == str

\* destination.toLowerCase() in getDestinationKey
LowerCased(str) == ToLowerCase(str)

\* getDestinationKey: the key of destinationSuggestions for a destination
getDestinationKey(destination) ==
    LET dest == LowerCased(destination)
    IN IF Includes(dest, ParisText) THEN "paris"
       ELSE IF Includes(dest, TokyoText) THEN "tokyo"
       ELSE IF Includes(dest, NewYorkText) \/ Includes(dest, NycText)
       THEN "new_york"
       ELSE IF Includes(dest, LondonText) THEN "london"
       ELSE "default"

\* mutant: the whole list returned
WholeList(list, start, end) == list

\* Array.prototype.slice(start, end)
Slice(list, start, end) ==
    SubSeq(list, start + 1, IF end < Len(list) THEN end ELSE Len(list))

\* a JSON value is [type, text]; text is the sequence of characters of a
\* string and the literal of any other value
String(str) == [type |-> "string", text |-> str]
Undefined == [type |-> "undefined", text |-> <<>>]
Null == [type |-> "null", text |-> <<>>]
Number(digit) == [type |-> "number", text |-> <<digit>>]
Boolean(literal) == [type |-> "boolean", text |-> <<literal>>]

\* mutant: no test of the destination before it is used
NeverFalsy(value) == FALSE

\* !destination
Falsy(value) ==
    \/ value.type \in {"undefined", "null"}
    \/ value.type = "string" /\ value.text = <<>>
    \/ value = Number("0")
    \/ value = Boolean("false")

\* the texts sent as destination
Words ==
    {<<"P", "a", "r", "i", "s">>,
     <<"P", "A", "R", "I", "S">>,
     <<"p", "a", "r", "i", "s">>,
     <<"p", "a", "r", "i">>,
     <<"T", "o", "k", "y", "o">>,
     <<"t", "O", "K", "Y", "O">>,
     <<"t", "o", "k", "y">>,
     <<"N", "e", "w", " ", "Y", "o", "r", "k">>,
     <<"N", "E", "W", " ", "Y", "O", "R", "K">>,
     <<"n", "e", "w", " ", " ", "y", "o", "r", "k">>,
     <<"n", "e", "w", "y", "o", "r", "k">>,
     <<"N", "Y", "C">>,
     <<"n", "y", "c">>,
     <<"n", "y", " ", "c">>,
     <<"L", "o", "n", "d", "o", "n">>,
     <<"l", "o", "n", "D", "O", "N">>,
     <<"l", "o", "n", "d", "o">>,
     <<"N", "o", "w", "h", "e", "r", "e">>,
     <<"F", "r", "a", "n", "c", "e">>,
     <<>>}
Prefixes == {<<>>,
             <<"x">>,
             <<"I", "n", " ">>}
Suffixes == {<<>>,
             <<",", " ", "F", "r", "a", "n", "c", "e">>,
             <<"s">>}
Destinations ==
    {pre \o w \o suf : pre \in Prefixes, w \in Words, suf \in Suffixes}
        \cup {v \o <<" ">> \o w :
                 v, w \in {ParisText, TokyoText, NewYorkText, NycText, LondonText}}

\* the bodies a request can carry: text that req.json() rejects, or an object
\* whose destination is a string, another value or missing
NotJson == [json |-> FALSE, destination |-> Undefined]
Object(destination) == [json |-> TRUE, destination |-> destination]
Bodies ==
    {NotJson}
        \cup {Object(String(str)) : str \in Destinations}
        \cup {Object(v) : v \in {Undefined, Null, Number("0"), Number("5"),
                                  Boolean("false"), Boolean("true")}}
Methods == {"OPTIONS", "POST", "GET"}
Requests == [method : Methods, body : Bodies]

NoRequest == [method |-> "", body |-> NotJson]

\* mutant: every response built without its status option
DefaultStatus(status, kind, suggestions, destination, error) ==
    [status |-> 200, kind |-> kind, suggestions |-> suggestions,
     destination |-> destination, error |-> error]

\* new Response(body, {status}); kind tells which of the three bodies it is
Response(status, kind, suggestions, destination, error) ==
    [status |-> status, kind |-> kind, suggestions |-> suggestions,
     destination |-> destination, error |-> error]
NoResponse == Response(0, "", <<>>, Undefined, "")

\* the messages of the errors thrown by req.json() and by toLowerCase
SyntaxError == "Unexpected token"
TypeError == "destination.toLowerCase is not a function"

\* the handler given to Deno.serve
Handler(req) ==
    IF req.method = "OPTIONS"
    THEN Response(200, "null", <<>>, Undefined, "")
    ELSE IF ~req.body.json
    THEN Response(500, "error", <<>>, Undefined, SyntaxError)
    ELSE LET destination == req.body.destination
         IN IF Falsy(destination)
            THEN Response(400, "error", <<>>, Undefined, "Destination is required")
            ELSE IF destination.type # "string"
            THEN Response(500, "error", <<>>, Undefined, TypeError)
            ELSE LET destKey == getDestinationKey(destination.text)
                     suggestions == destinationSuggestions[destKey]
                 IN Response(200, "suggestions", Slice(suggestions, 0, 5),
                             destination, "")

\* a request arrives, on a fresh connection or after the previous response
Receive(req) ==
    /\ request = NoRequest \/ response # NoResponse
    /\ request' = req
    /\ response' = NoResponse
    /\ UNCHANGED <<profiles, itineraries, collaborators, activities, users, now, txn>>

\* the handler answers the request
Serve ==
    /\ request # NoRequest
    /\ response = NoResponse
    /\ response' = Handler(request)
    /\ UNCHANGED <<profiles, itineraries, collaborators, activities, users, now, txn>>
    /\ UNCHANGED request

\* ------------------------------------------------------------ specifications
\* the tables after the migrations: no row yet
InitProfiles ==
    /\ profiles = {}
    /\ itineraries = {}
    /\ collaborators = {}
    /\ activities = {}
    /\ users = Principals
    /\ now = 0
    /\ txn = [s \in Sessions |-> NoTxn]
    /\ request = NoRequest
    /\ response = NoResponse

\* the principals have signed up: each has a profile, no trip exists
Init ==
    /\ profiles = {[id |-> p, email |-> EmailOf[p], display_name |-> "a"] :
                      p \in Principals}
    /\ itineraries = {}
    /\ collaborators = {}
    /\ activities = {}
    /\ users = Principals
    /\ now = 0
    /\ txn = [s \in Sessions |-> NoTxn]
    /\ request = NoRequest
    /\ response = NoResponse

ItineraryStatements(names) ==
    \/ \E uid \in Principals, name \in names, cb \in Principals :
          InsertItinerary(uid, name, cb)
    \/ \E uid \in Principals, id \in ItineraryIds, name \in names, cb \in Principals :
          UpdateItinerary(uid, id, name, cb)
    \/ \E uid \in Principals, id \in ItineraryIds : DeleteItinerary(uid, id)

CollaboratorStatements ==
    \/ \E uid \in Principals, i \in ItineraryIds, u \in Principals, role \in Roles :
          InsertCollaborator(uid, i, u, role)
    \/ \E uid \in Principals, id \in CollaboratorIds, i \in ItineraryIds,
          u \in Principals, role \in Roles :
          UpdateCollaborator(uid, id, i, u, role)
    \/ \E uid \in Principals, id \in CollaboratorIds : DeleteCollaborator(uid, id)

ActivityStatements ==
    \/ \E uid \in Principals, i \in ItineraryIds, cb \in Principals :
          InsertActivity(uid, i, cb)
    \/ \E uid \in Principals, id \in ActivityIds, i \in ItineraryIds, cb \in Principals :
          UpdateActivity(uid, id, i, cb)
    \/ \E uid \in Principals, id \in ActivityIds : DeleteActivity(uid, id)

ProfileStatements ==
    \/ \E uid \in Principals, id \in Principals, e \in Emails, n \in Names :
          InsertProfile(uid, id, e, n)
    \/ \E uid \in Principals, id \in Principals, e \in Emails, n \in Names :
          UpdateProfile(uid, id, e, n)

\* the trip store: statements on itineraries, collaborators and activities
\* (no policy reads itineraries.name, which keeps one value here)
Next == ItineraryStatements({"a"}) \/ CollaboratorStatements \/ ActivityStatements

Spec == Init /\ [][Next]_vars

\* itineraries and their collaborators, every column of an itinerary written
NextItin == ItineraryStatements(Names) \/ CollaboratorStatements

SpecItin == Init /\ [][NextItin]_vars

\* the same with updates that name several itineraries at once
BulkStatements ==
    \E uid \in Principals, ids \in SUBSET ItineraryIds, name \in Names,
       cb \in Principals :
        UpdateItineraries(uid, ids, name, cb)

NextBulk == NextItin \/ BulkStatements

SpecBulk == Init /\ [][NextBulk]_vars

\* the trip store while accounts are deleted; a token issued before the
\* deletion still carries the principal's id
UserStatements == \E id \in Principals : DeleteUser(id)

NextUsers == Next \/ UserStatements

SpecUsers == Init /\ [][NextUsers]_vars

\* trips are created and shared: the collaborator form beside the statements
\* on collaborators
FormStatements ==
    \E uid \in Principals, i \in ItineraryIds, entered \in Typed, role \in FormRoles :
        HandleAddCollaborator(uid, i, entered, role)

NextAdd ==
    \/ \E uid \in Principals, cb \in Principals : InsertItinerary(uid, "a", cb)
    \/ CollaboratorStatements
    \/ FormStatements

SpecAdd == Init /\ [][NextAdd]_vars

\* the three tables, and the itinerary's page open in the readers' browsers
DetailsStatements ==
    \E uid \in Principals, i \in ItineraryIds, a \in ActivityIds,
       confirmed \in BOOLEAN :
        HandleDeleteActivity(uid, i, a, confirmed)

NextDetails == Next \/ DetailsStatements

SpecDetails == Init /\ [][NextDetails]_vars

\* itineraries created from the list, and the collaborator form alone:
\* adding through the form, removing with the button of a listed row
NextForm ==
    \/ \E uid \in Principals : InsertItinerary(uid, "a", uid)
    \/ FormStatements
    \/ \E uid \in Principals, id \in CollaboratorIds : DeleteCollaborator(uid, id)

SpecForm == Init /\ [][NextForm]_vars

\* the suggestion function serving one request after another
NextSuggest ==
    \/ \E req \in Requests : Receive(req)
    \/ Serve

SpecSuggest == Init /\ [][NextSuggest]_vars

\* the same, the runtime running the handler of every request it accepted
SpecSuggestFair == SpecSuggest /\ WF_vars(Serve)

\* itineraries written by requests whose transactions overlap in time
NextClock ==
    \/ Tick
    \/ \E s \in Sessions : Begin(s)
    \/ \E s \in Sessions, uid \in Principals, id \in ItineraryIds,
          name \in Names, cb \in Principals, at \in Times \cup {Unset} :
          UpdateItineraryIn(s, uid, id, name, cb, at)
    \/ \E uid \in Principals, name \in Names, cb \in Principals :
          InsertItinerary(uid, name, cb)

SpecClock == Init /\ [][NextClock]_vars

\* the profiles table from the first sign-up on
NextProfiles == ProfileStatements

SpecProfiles == InitProfiles /\ [][NextProfiles]_vars

\* ===================================================================== claims
\* the relationships of a principal to an itinerary row, as the claims word them
IsCreator(p, i) == i.created_by = p
HasRow(p, i) == \E c \in collaborators : c.itinerary_id = i.id /\ c.user_id = p
HasRole(p, i, roles) ==
    \E c \in collaborators :
        c.itinerary_id = i.id /\ c.user_id = p /\ c.role \in roles
MayEdit(p, i) == IsCreator(p, i) \/ HasRole(p, i, {"owner", "editor"})
OnlyViewer(p, i) ==
    /\ ~IsCreator(p, i)
    /\ HasRole(p, i, {"viewer"})
    /\ ~HasRole(p, i, Roles \ {"viewer"})
Stranger(p, i) == ~IsCreator(p, i) /\ ~HasRow(p, i)

\* C1 (as claimed): no statement changes the created_by of an itinerary row, and
\* an insert naming another principal as created_by adds no row.
C1_CreatedByNeverChanges ==
    [][/\ \A r \in itineraries : \A r2 \in itineraries' :
             r2.id = r.id => r2.created_by = r.created_by
       /\ \A r2 \in itineraries' :
             (\A r \in itineraries : r.id # r2.id) =>
                 \E n \in Names : InsertItinerary(r2.created_by, n, r2.created_by)
      ]_vars

\* C2: a select by P returns itinerary I exactly when P is its created_by or a
\* collaborator row (I, P) exists, whatever its role.
C2_ReadIffCreatorOrCollaborator ==
    \A p \in Principals :
        /\ SelectItineraries(p) \subseteq itineraries
        /\ \A i \in itineraries :
              i \in SelectItineraries(p) <=> (IsCreator(p, i) \/ HasRow(p, i))

\* C2 witness: a viewer reads a trip of another principal, a stranger does not
C2_Witness ==
    \E i \in itineraries : \E p, q \in Principals :
        /\ OnlyViewer(p, i) /\ i \in SelectItineraries(p)
        /\ Stranger(q, i) /\ i \notin SelectItineraries(q)

\* the row of itinerary id after an update to (name, cb) was applied to it
Updated(i, name, cb) ==
    [i EXCEPT !.name = name, !.created_by = cb, !.updated_at = now]

\* C3 (as claimed): an update of I by P is applied exactly when P is I's
\* created_by or holds an owner or editor row on I.
C3_UpdateIffMayEdit ==
    \A p \in Principals, i \in itineraries, n \in Names, cb \in Principals :
        LET res == UpdateItineraryResult(p, i.id, n, cb)
        IN (res.rows = 1 /\ Updated(i, n, cb) \in res.table) <=> MayEdit(p, i)

\* C3 (amended): an update of I by P is applied exactly when P is created_by or
\* holds an owner or editor row, on the row as it is and on the row as updated;
\* otherwise, and for every viewer and non-collaborator, no row changes.
C3_UpdateIffMayEditBeforeAndAfter ==
    \A p \in Principals, id \in ItineraryIds, n \in Names, cb \in Principals :
        LET res == UpdateItineraryResult(p, id, n, cb)
        IN /\ \A i \in itineraries : i.id = id =>
                 IF MayEdit(p, i) /\ MayEdit(p, Updated(i, n, cb))
                 THEN /\ res.rows = 1
                      /\ res.table = (itineraries \ {i}) \cup {Updated(i, n, cb)}
                 ELSE res.rows = 0 /\ res.table = itineraries
           /\ (\A i \in itineraries : i.id # id) =>
                 res.rows = 0 /\ res.table = itineraries

\* C3 witness: an editor's rename is applied, the creator's hand-over of
\* created_by is refused, a viewer's rename affects no row
C3_Witness ==
    \E i \in itineraries : \E p, q \in Principals :
        /\ i.name = "b"
        /\ ~IsCreator(p, i) /\ HasRole(p, i, {"editor"})
        /\ UpdateItineraryResult(p, i.id, "a", i.created_by).rows = 1
        /\ UpdateItineraryResult(i.created_by, i.id, "a", q).code = RlsViolation
        /\ OnlyViewer(q, i)
        /\ UpdateItineraryResult(q, i.id, "a", i.created_by).rows = 0

\* C4: an itinerary leaves the table only by a delete of its created_by, and a
\* delete by any other principal removes nothing.
C4_DeleteOnlyByCreator ==
    [][/\ \A i \in itineraries :
             (\A r \in itineraries' : r.id # i.id) => DeleteItinerary(i.created_by, i.id)
       /\ \A p \in Principals, i \in itineraries :
             (DeleteItinerary(p, i.id) /\ ~IsCreator(p, i)) =>
                 UNCHANGED <<itineraries, collaborators, activities>>
      ]_vars

\* C4 witness: the delete of an editor and of an owner-role collaborator affect
\* no row of a trip its creator can delete
C4_Witness ==
    \E i \in itineraries : \E p, q \in Principals :
        /\ ~IsCreator(p, i) /\ HasRole(p, i, {"editor"})
        /\ ~IsCreator(q, i) /\ HasRole(q, i, {"owner"})
        /\ DeleteItineraryResult(p, i.id).rows = 0
        /\ DeleteItineraryResult(q, i.id).rows = 0
        /\ DeleteItineraryResult(i.created_by, i.id).rows = 1

\* the itinerary a collaborator or activity row refers to
ItineraryOf(row) == CHOOSE i \in itineraries : i.id = row.itinerary_id

\* C5: an activity insert, update or delete on itinerary I by P is applied
\* exactly when P is I's created_by or holds an owner or editor row on I (an
\* update that moves the activity is one on both itineraries); a principal who
\* is only a viewer of I reads its activities and none of the writes changes
\* the table.
C5_ActivityWriteIffMayEdit ==
    \A p \in Principals :
        /\ \A i \in itineraries, cb \in Principals :
              HasFreshId(activities, ActivityIds) =>
                 LET res == InsertActivityResult(p, i.id, cb)
                     row == [id |-> FreshId(activities, ActivityIds),
                             itinerary_id |-> i.id, created_by |-> cb]
                 IN IF MayEdit(p, i)
                    THEN res.rows = 1 /\ res.table = activities \cup {row}
                    ELSE res.rows = 0 /\ res.table = activities
                         /\ res.code = RlsViolation
        /\ \A a \in activities, i2 \in itineraries, cb \in Principals :
              LET res == UpdateActivityResult(p, a.id, i2.id, cb)
                  row == [a EXCEPT !.itinerary_id = i2.id, !.created_by = cb]
              IN IF MayEdit(p, ItineraryOf(a)) /\ MayEdit(p, i2)
                 THEN res.rows = 1 /\ res.table = (activities \ {a}) \cup {row}
                 ELSE res.rows = 0 /\ res.table = activities
        /\ \A a \in activities :
              LET res == DeleteActivityResult(p, a.id)
              IN IF MayEdit(p, ItineraryOf(a))
                 THEN res.rows = 1 /\ res.table = activities \ {a}
                 ELSE res.rows = 0 /\ res.table = activities
        /\ \A i \in itineraries :
              OnlyViewer(p, i) =>
                 SelectActivities(p, i.id) = {a \in activities : a.itinerary_id = i.id}

\* C5 witness: a viewer reads an activity it can neither update nor delete,
\* while an editor who is not the creator can delete it
C5_Witness ==
    \E a \in activities : \E p, q \in Principals :
        /\ OnlyViewer(p, ItineraryOf(a))
        /\ a \in SelectActivities(p, a.itinerary_id)
        /\ UpdateActivityResult(p, a.id, a.itinerary_id, p).rows = 0
        /\ DeleteActivityResult(p, a.id).rows = 0
        /\ ~IsCreator(q, ItineraryOf(a)) /\ HasRole(q, ItineraryOf(a), {"editor"})
        /\ DeleteActivityResult(q, a.id).rows = 1

\* C6: an insert, update or delete of a collaborator row affects a row only
\* when the acting principal is created_by of the row's itinerary (of both
\* itineraries when an update moves the row); from anyone else it leaves the
\* collaborators table unchanged.
C6_CollaboratorsOnlyByCreator ==
    \A p \in Principals :
        /\ \A id \in ItineraryIds, u \in Principals, role \in Roles :
              HasFreshId(collaborators, CollaboratorIds) =>
                 LET res == InsertCollaboratorResult(p, id, u, role)
                 IN IF \E i \in itineraries : i.id = id /\ IsCreator(p, i)
                    THEN res.rows = 0 => res.table = collaborators
                    ELSE res.rows = 0 /\ res.table = collaborators
        /\ \A c \in collaborators, id \in ItineraryIds, u \in Principals, role \in Roles :
              LET res == UpdateCollaboratorResult(p, c.id, id, u, role)
              IN IF /\ IsCreator(p, ItineraryOf(c))
                    /\ \E i \in itineraries : i.id = id /\ IsCreator(p, i)
                 THEN res.rows = 0 => res.table = collaborators
                 ELSE res.rows = 0 /\ res.table = collaborators
        /\ \A c \in collaborators :
              LET res == DeleteCollaboratorResult(p, c.id)
              IN IF IsCreator(p, ItineraryOf(c))
                 THEN res.rows = 1 /\ res.table = collaborators \ {c}
                 ELSE res.rows = 0 /\ res.table = collaborators

\* C6 witness: an editor can neither add a collaborator, nor promote or remove
\* its own row, on a trip whose creator can do all three
C6_Witness ==
    \E c \in collaborators : \E q \in Principals :
        LET i == ItineraryOf(c)
            p == c.user_id
        IN /\ c.role = "editor" /\ ~IsCreator(p, i)
           /\ Stranger(q, i)
           /\ HasFreshId(collaborators, CollaboratorIds)
           /\ InsertCollaboratorResult(p, i.id, q, "viewer").code = RlsViolation
           /\ UpdateCollaboratorResult(p, c.id, i.id, p, "owner").rows = 0
           /\ DeleteCollaboratorResult(p, c.id).rows = 0
           /\ InsertCollaboratorResult(i.created_by, i.id, q, "viewer").rows = 1
           /\ UpdateCollaboratorResult(i.created_by, c.id, i.id, p, "owner").rows = 1
           /\ DeleteCollaboratorResult(i.created_by, c.id).rows = 1

\* C7: P reads a collaborator row or an activity row of itinerary I exactly
\* when P reads I itself.
C7_ChildReadsFollowItineraryRead ==
    \A p \in Principals :
        /\ \A c \in collaborators :
              c \in SelectCollaborators(p, c.itinerary_id)
                 <=> ItineraryOf(c) \in SelectItineraries(p)
        /\ \A a \in activities :
              a \in SelectActivities(p, a.itinerary_id)
                 <=> ItineraryOf(a) \in SelectItineraries(p)
        /\ \A i \in itineraries :
              i \in SelectItineraries(p) <=> (IsCreator(p, i) \/ HasRow(p, i))

\* C7 witness: a viewer reads the trip, its collaborator rows and its activity;
\* a stranger reads none of them
C7_Witness ==
    \E a \in activities : \E p, q \in Principals :
        LET i == ItineraryOf(a)
        IN /\ OnlyViewer(p, i) /\ Stranger(q, i)
           /\ i \in SelectItineraries(p)
           /\ a \in SelectActivities(p, i.id)
           /\ SelectCollaborators(p, i.id) # {}
           /\ i \notin SelectItineraries(q)
           /\ SelectActivities(q, i.id) = {}
           /\ SelectCollaborators(q, i.id) = {}

\* C8 (as claimed): an insert or update by P of a profile row whose id is
\* another principal Q affects no row.
C8_ProfileWriteSelfOnly ==
    \A p, q \in Principals, e \in Emails, n \in Names :
        p # q =>
            /\ InsertProfileResult(p, q, e, n).rows = 0
            /\ UpdateProfileResult(p, q, e, n).rows = 0

\* C9: no two collaborator rows share (itinerary_id, user_id); an insert by
\* the itinerary's creator for an existing pair ends with the
\* uniqueness-violation code, and from any principal it leaves the table as is.
C9_CollaboratorPairUnique ==
    /\ \A c1, c2 \in collaborators :
          (c1.itinerary_id = c2.itinerary_id /\ c1.user_id = c2.user_id) => c1 = c2
    /\ \A c \in collaborators, p \in Principals, role \in Roles :
          HasFreshId(collaborators, CollaboratorIds) =>
             LET res == InsertCollaboratorResult(p, c.itinerary_id, c.user_id, role)
             IN /\ res.rows = 0 /\ res.table = collaborators
                /\ IsCreator(p, ItineraryOf(c)) => res.code = UniqueViolation

\* C9 witness: a pair is present and its creator's second insert of the pair,
\* with another role, ends with 23505
C9_Witness ==
    \E c \in collaborators :
        /\ HasFreshId(collaborators, CollaboratorIds)
        /\ c.role = "viewer"
        /\ InsertCollaboratorResult(ItineraryOf(c).created_by, c.itinerary_id,
                                    c.user_id, "editor").code = UniqueViolation

\* C10: a step that removes itinerary I removes exactly I, every collaborator
\* row and every activity of I, and nothing else: rows of other itineraries
\* and all profiles stay.
C10_DeleteCascades ==
    [][\A i \in itineraries :
          (\A r \in itineraries' : r.id # i.id) =>
              /\ itineraries' = itineraries \ {i}
              /\ collaborators' = {c \in collaborators : c.itinerary_id # i.id}
              /\ activities' = {a \in activities : a.itinerary_id # i.id}
              /\ profiles' = profiles
      ]_vars

\* C10 witness: a trip with a collaborator and an activity, beside another trip
\* with a collaborator, is about to be deleted by its creator
C10_Witness ==
    \E i, j \in itineraries :
        /\ i.id # j.id
        /\ \E c \in collaborators : c.itinerary_id = i.id
        /\ \E a \in activities : a.itinerary_id = i.id
        /\ \E c \in collaborators : c.itinerary_id = j.id
        /\ profiles # {}
        /\ DeleteItineraryResult(i.created_by, i.id).rows = 1

\* C11: a step that deletes principal P leaves no profile of P, no itinerary
\* that P created, no activity and no collaborator row of such an itinerary,
\* and no collaborator row whose user_id is P.
C11_DeleteUserCascades ==
    [][\A p \in users \ users' :
          /\ \A r \in profiles' : r.id # p
          /\ \A i \in itineraries :
                i.created_by = p =>
                    /\ \A r \in itineraries' : r.id # i.id
                    /\ \A c \in collaborators' : c.itinerary_id # i.id
                    /\ \A a \in activities' : a.itinerary_id # i.id
          /\ \A c \in collaborators' : c.user_id # p
      ]_vars

\* C11 witness: a principal with a profile, a trip of their own that has a
\* collaborator and an activity, and a collaborator row on another
\* principal's trip, has just not been deleted yet
C11_Witness ==
    \E p \in users : \E i, j \in itineraries :
        /\ \E r \in profiles : r.id = p
        /\ i.created_by = p /\ j.created_by # p
        /\ \E c \in collaborators : c.itinerary_id = i.id
        /\ \E a \in activities : a.itinerary_id = i.id
        /\ \E c \in collaborators : c.itinerary_id = j.id /\ c.user_id = p
        /\ ENABLED DeleteUser(p)

\* C12: every activity names an existing itinerary and every collaborator row
\* names an existing itinerary and an existing principal; every statement
\* leaves the tables so, and an insert naming a missing itinerary or a
\* missing principal is refused with an error and adds no row.
C12_ReferencesExist ==
    /\ \A a \in activities : \E i \in itineraries : i.id = a.itinerary_id
    /\ \A c \in collaborators :
          /\ \E i \in itineraries : i.id = c.itinerary_id
          /\ c.user_id \in users
    /\ \A uid \in Principals, i \in ItineraryIds, u \in Principals, role \in Roles :
          /\ HasFreshId(collaborators, CollaboratorIds) =>
                LET res == InsertCollaboratorResult(uid, i, u, role)
                IN  ((\A r \in itineraries : r.id # i) \/ u \notin users) =>
                        /\ res.code \in {RlsViolation, ForeignKeyViolation}
                        /\ res.table = collaborators
          /\ \A id \in CollaboratorIds :
                \A c \in UpdateCollaboratorResult(uid, id, i, u, role).table :
                    /\ \E r \in itineraries : r.id = c.itinerary_id
                    /\ c.user_id \in users
    /\ \A uid \in Principals, i \in ItineraryIds, cb \in Principals :
          /\ HasFreshId(activities, ActivityIds) =>
                LET res == InsertActivityResult(uid, i, cb)
                IN  (\A r \in itineraries : r.id # i) =>
                        /\ res.code \in {RlsViolation, ForeignKeyViolation}
                        /\ res.table = activities
          /\ \A id \in ActivityIds :
                \A a \in UpdateActivityResult(uid, id, i, cb).table :
                    \E r \in itineraries : r.id = a.itinerary_id

\* C12 witness: after an account was deleted, the creator of a trip that has a
\* collaborator is refused a row for the deleted principal (23503) and a
\* re-assignment of the existing row to that principal
C12_Witness ==
    \E i \in itineraries : \E u \in Principals \ users : \E c \in collaborators :
        /\ c.itinerary_id = i.id
        /\ HasFreshId(collaborators, CollaboratorIds)
        /\ InsertCollaboratorResult(i.created_by, i.id, u, "viewer").code
              = ForeignKeyViolation
        /\ UpdateCollaboratorResult(i.created_by, c.id, i.id, u, c.role).code
              = ForeignKeyViolation

\* the update requests a client can send for an itinerary
UpdateRequests ==
    Principals \X ItineraryIds \X Names \X Principals \X (Times \cup {Unset})

\* C13: an update of an itinerary that is admitted stores, together with the
\* name and created_by it sets, updated_at = now() of the transaction that
\* runs it, whatever the client supplies for updated_at; an update that is not
\* admitted changes nothing; and no step changes an itinerary row without
\* leaving its updated_at at the now() of a transaction open in that step.
C13_UpdatedAtSetByTrigger ==
    /\ [](\A q \in UpdateRequests : \A s \in Sessions :
            txn[s] # NoTxn =>
                LET res == UpdateItineraryAt(q[1], q[2], q[3], q[4], q[5], txn[s])
                IN IF res.rows = 0
                   THEN res.table = itineraries
                   ELSE /\ res.code = NoError
                        /\ \A r \in res.table :
                              r.id = q[2] =>
                                  /\ r.updated_at = txn[s]
                                  /\ r.name = q[3]
                                  /\ r.created_by = q[4]
                        /\ {r \in res.table : r.id # q[2]}
                              = {r \in itineraries : r.id # q[2]})
    /\ [][\A r \in itineraries : \A r2 \in itineraries' :
             (r2.id = r.id /\ r2 # r) =>
                 \E s \in Sessions :
                     /\ txn[s] # NoTxn /\ txn'[s] = NoTxn
                     /\ r2.updated_at = txn[s]
         ]_vars

\* C13 witness: on a connection whose transaction is open, the creator of a
\* trip last written at another time than that transaction's now() is
\* admitted an update that renames it and supplies a third updated_at
C13_Witness ==
    \E i \in itineraries : \E s \in Sessions : \E at \in Times :
        /\ txn[s] # NoTxn
        /\ i.updated_at # txn[s] /\ at # txn[s] /\ at # i.updated_at
        /\ i.name = "a"
        /\ UpdateItineraryAt(i.created_by, i.id, "b", i.created_by, at, txn[s]).rows = 1

\* C14 (as claimed): the updated_at of an itinerary never decreases from one
\* committed write to the next, whatever the order in which overlapping
\* transactions commit.
C14_UpdatedAtNeverDecreases ==
    [][\A r \in itineraries : \A r2 \in itineraries' :
          r2.id = r.id => r2.updated_at >= r.updated_at
      ]_vars

\* C15 (as claimed): the lookup of the collaborator form finds a profile
\* whenever the entered text, trimmed, equals the stored email ignoring case,
\* whatever the case of the stored email.
C15_LookupIgnoresCase ==
    \A uid \in Principals : \A entered \in Typed : \A r \in profiles :
        ToLowerCase(Trim(entered)) = ToLowerCase(r.email) =>
            /\ SelectProfileByEmail(uid, entered).error = NoError
            /\ SelectProfileByEmail(uid, entered).data # NoRow

\* the itineraries a form can be open on, with the principal using it
FormCalls == Principals \X ItineraryIds \X Typed \X FormRoles

\* C16: the form refuses (1) an email no profile matches with the not-found
\* message, (2) an email of the acting principal with the cannot-add-self
\* message, (3) an email of a principal who already has a row on the
\* itinerary with the already-a-collaborator message when the acting
\* principal is the creator (the insert is then answered 23505), and with
\* some message for any acting principal; (1) is tested before (2) and (2)
\* before (3); no insert is sent in (1) and (2), one in (3); the messages
\* differ and the collaborators table is unchanged in all three.
C16_AddCollaboratorRejections ==
    /\ Cardinality({NotFoundMessage, SelfMessage, AlreadyMessage, NoMessage}) = 4
    /\ \A q \in FormCalls :
          HasFreshId(collaborators, CollaboratorIds) =>
              LET uid == q[1]
                  found == SelectProfileByEmail(uid, q[3])
                  res == HandleAddCollaboratorResult(uid, q[2], q[3], q[4])
                  paired == \E c \in collaborators :
                                c.itinerary_id = q[2] /\ c.user_id = found.data
                  creator == \E i \in itineraries :
                                i.id = q[2] /\ i.created_by = uid
              IN /\ (found.error = NoError /\ found.data = NoRow) =>
                        /\ res.error = NotFoundMessage
                        /\ res.inserts = 0
                        /\ res.table = collaborators
                 /\ (found.error = NoError /\ found.data = uid) =>
                        /\ res.error = SelfMessage
                        /\ res.inserts = 0
                        /\ res.table = collaborators
                 /\ (found.error = NoError /\ found.data \in Principals \ {uid}
                        /\ paired) =>
                        /\ res.error \notin {NoMessage, NotFoundMessage, SelfMessage}
                        /\ creator => res.error = AlreadyMessage
                        /\ res.inserts = 1
                        /\ res.table = collaborators

\* C16 witness: the creator of a trip that has a collaborator is refused in
\* each of the three ways, for three entered texts
C16_Witness ==
    \E i \in itineraries : \E c \in collaborators : \E e1, e2, e3 \in Typed :
        /\ c.itinerary_id = i.id /\ c.user_id # i.created_by
        /\ HasFreshId(collaborators, CollaboratorIds)
        /\ HandleAddCollaboratorResult(i.created_by, i.id, e1, "viewer").error
              = NotFoundMessage
        /\ HandleAddCollaboratorResult(i.created_by, i.id, e2, "viewer").error
              = SelfMessage
        /\ HandleAddCollaboratorResult(i.created_by, i.id, e3, "editor").error
              = AlreadyMessage

\* C17 (as claimed): the role of every collaborator row is owner, editor or
\* viewer, and the creator's insert or role update carrying another role is
\* refused and leaves the table as it was.
C17_RoleIsOwnerEditorViewer ==
    /\ \A c \in collaborators : c.role \in {"owner", "editor", "viewer"}
    /\ \A i \in itineraries : \A u \in Principals :
          \A role \in Roles \ {"owner", "editor", "viewer"} :
              /\ HasFreshId(collaborators, CollaboratorIds) =>
                    LET res == InsertCollaboratorResult(i.created_by, i.id, u, role)
                    IN res.code # NoError /\ res.table = collaborators
              /\ \A c \in collaborators :
                    LET res == UpdateCollaboratorResult(i.created_by, c.id,
                                   c.itinerary_id, c.user_id, role)
                    IN c.itinerary_id = i.id =>
                           res.code # NoError /\ res.table = collaborators

\* what a statement lets its sender observe: rows affected and SQLSTATE
Outcome(res) == <<res.rows, res.code>>

\* everything principal p can observe of the rows in place: what each read
\* returns and how each update and delete is answered
ViewOfRows(p) ==
    [reads |-> <<SelectItineraries(p),
                 [i \in ItineraryIds |-> SelectCollaborators(p, i)],
                 [i \in ItineraryIds |-> SelectActivities(p, i)]>>,
     itineraries |->
        [id \in ItineraryIds |->
            <<Outcome(DeleteItineraryResult(p, id)),
              [q \in Names \X Principals |->
                  Outcome(UpdateItineraryResult(p, id, q[1], q[2]))]>>],
     collaborators |->
        [id \in CollaboratorIds |->
            <<Outcome(DeleteCollaboratorResult(p, id)),
              [q \in ItineraryIds \X Principals \X Roles |->
                  Outcome(UpdateCollaboratorResult(p, id, q[1], q[2], q[3]))]>>],
     activities |->
        [id \in ActivityIds |->
            <<Outcome(DeleteActivityResult(p, id)),
              [q \in ItineraryIds \X Principals |->
                  Outcome(UpdateActivityResult(p, id, q[1], q[2]))]>>]]

\* how each insert of a collaborator row by p is answered
ViewOfCollaboratorInserts(p) ==
    [q \in ItineraryIds \X Principals \X Roles |->
        Outcome(InsertCollaboratorResult(p, q[1], q[2], q[3]))]

\* how each insert of an activity by p is answered
ViewOfActivityInserts(p) ==
    [q \in ItineraryIds \X Principals |->
        Outcome(InsertActivityResult(p, q[1], q[2]))]

\* C18: for a principal P who is neither creator nor collaborator of
\* itinerary I, the store with I and the store that differs from it by the
\* absence of I and of I's child rows answer every read, update, delete and
\* child-row insert of P alike (rows returned, rows affected, SQLSTATE).  The
\* two stores are the two sides of a step that deletes I.
C18_StrangerCannotTellExistence ==
    [][\A i \in itineraries :
          (\A r \in itineraries' : r.id # i.id) =>
              \A p \in Principals :
                  Stranger(p, i) =>
                      /\ ViewOfRows(p) = ViewOfRows(p)'
                      /\ HasFreshId(collaborators, CollaboratorIds) =>
                            ViewOfCollaboratorInserts(p)
                                = ViewOfCollaboratorInserts(p)'
                      /\ HasFreshId(activities, ActivityIds) =>
                            ViewOfActivityInserts(p) = ViewOfActivityInserts(p)'
      ]_vars

\* C18 witness: a trip with a collaborator is about to be deleted while a
\* principal who is a stranger to it has a trip of their own and is refused an
\* activity and a collaborator row on the first trip
C18_Witness ==
    \E i, j \in itineraries : \E p \in Principals :
        /\ Stranger(p, i) /\ j.created_by = p
        /\ \E c \in collaborators : c.itinerary_id = i.id
        /\ HasFreshId(collaborators, CollaboratorIds)
        /\ HasFreshId(activities, ActivityIds)
        /\ InsertActivityResult(p, i.id, p).code = RlsViolation
        /\ InsertCollaboratorResult(p, i.id, p, "editor").code = RlsViolation
        /\ DeleteItineraryResult(i.created_by, i.id).rows = 1

\* the two characters are one letter, in either case, or one character
SameLetter(a, b) ==
    \/ a = b
    \/ \E u \in 1..Len(UpperCase) : {a, b} = {UpperCase[u], LowerCase[u]}

\* part occurs in str as a run of characters, the case of letters ignored
ContainsIgnoringCase(str, part) ==
    \E k \in 0..(Len(str) - Len(part)) :
        \A j \in 1..Len(part) : SameLetter(str[k + j], part[j])

\* C19: getDestinationKey gives paris for a destination that contains "paris"
\* in any letter case, else tokyo for one that contains "tokyo", else new york
\* for one that contains "new york" or "nyc", else london for one that
\* contains "london", else default; "Paris, France" gives paris and "Nowhere"
\* gives default.
C19_DestinationKey ==
    /\ \A d \in Destinations :
          getDestinationKey(d) =
              IF ContainsIgnoringCase(d, ParisText) THEN "paris"
              ELSE IF ContainsIgnoringCase(d, TokyoText) THEN "tokyo"
              ELSE IF ContainsIgnoringCase(d, NewYorkText)
                        \/ ContainsIgnoringCase(d, NycText) THEN "new_york"
              ELSE IF ContainsIgnoringCase(d, LondonText) THEN "london"
              ELSE "default"
    /\ getDestinationKey(<<"P", "a", "r", "i", "s", ",", " ",
                           "F", "r", "a", "n", "c", "e">>) = "paris"
    /\ getDestinationKey(<<"N", "o", "w", "h", "e", "r", "e">>) = "default"
    /\ (response # NoResponse /\ response.kind = "suggestions") =>
          response.suggestions[1]
              = destinationSuggestions[getDestinationKey(request.body.destination.text)][1]

\* C19 witness: the request for "Paris, France" was answered from the list of
\* paris
C19_Witness ==
    /\ request.body.destination
          = String(<<"P", "a", "r", "i", "s", ",", " ", "F", "r", "a", "n", "c", "e">>)
    /\ response.kind = "suggestions"
    /\ response.suggestions[1] = destinationSuggestions.paris[1]

\* C20: a request whose body the handler parses (any method but OPTIONS) and
\* whose destination is a non-empty string is answered 200 with the first five
\* entries of the list of its key, in the order of the list, and with the
\* destination as it was sent.
C20_FirstFiveAndDestination ==
    (/\ response # NoResponse
     /\ request.method # "OPTIONS"
     /\ request.body.json
     /\ request.body.destination.type = "string"
     /\ request.body.destination.text # <<>>) =>
        LET list == destinationSuggestions[
                        getDestinationKey(request.body.destination.text)]
        IN /\ response.status = 200
           /\ response.kind = "suggestions"
           /\ response.suggestions
                 = <<list[1], list[2], list[3], list[4], list[5]>>
           /\ response.destination = request.body.destination

\* C20 witness: a destination written in upper case was answered with five
\* suggestions of london and came back in upper case
C20_Witness ==
    /\ request.method = "POST"
    /\ response.status = 200
    /\ response.destination = String(<<"l", "o", "n", "D", "O", "N">>)
    /\ Len(response.suggestions) = 5
    /\ response.suggestions[5] = destinationSuggestions.london[5]

Throws(req) ==
    \/ ~req.body.json
    \/ ~Falsy(req.body.destination) /\ req.body.destination.type # "string"

\* C22: every request accepted is answered, once, with status 200, 400 or
\* 500, and the answer stays until the next request; a request of another
\* method than OPTIONS whose processing throws is answered 500 with an error
\* message; an OPTIONS request is answered 200 with no body whatever its body
\* is.
C22_OneResponse ==
    /\ [](response # NoResponse =>
            /\ response.status \in {200, 400, 500}
            /\ response = Handler(request)
            /\ (request.method # "OPTIONS" /\ Throws(request)) =>
                  /\ response.status = 500
                  /\ response.kind = "error"
                  /\ response.error # ""
            /\ request.method = "OPTIONS" =>
                  /\ response.status = 200
                  /\ response.kind = "null"
                  /\ \A b \in Bodies :
                        Handler([method |-> "OPTIONS", body |-> b]) = response)
    /\ [][/\ (response = NoResponse /\ response' # NoResponse) =>
                (request' = request /\ response' = Handler(request))
          /\ (response # NoResponse /\ response' # response) =>
                response' = NoResponse
          /\ (response # NoResponse /\ response' = response) =>
                request' = request
         ]_vars
    /\ ((request # NoRequest /\ response = NoResponse) ~> (response # NoResponse))

\* C22 witness: a GET whose destination is the number 5 has been answered 500
\* while an OPTIONS request with a body that is not JSON is answered 200
C22_Witness ==
    /\ request = [method |-> "GET", body |-> Object(Number("5"))]
    /\ response.status = 500
    /\ Handler([method |-> "OPTIONS", body |-> NotJson]).status = 200
    /\ Handler([method |-> "POST", body |-> NotJson]).status = 500

\* the update statements that name a set of itineraries
BulkRequests == Principals \X (SUBSET ItineraryIds) \X Names \X Principals

\* the itineraries among ids that p may update as they stand
Editable(p, ids) == {r \in itineraries : r.id \in ids /\ MayEdit(p, r)}

\* C23 (as claimed): an update that names several itineraries changes exactly
\* the named rows that the acting principal may update, both as they stand
\* and as the update leaves them, and succeeds whatever the other named rows
\* are.
C23_BulkUpdateRowByRow ==
    \A q \in BulkRequests :
        LET res == UpdateItinerariesResult(q[1], q[2], q[3], q[4])
            named == {r \in itineraries : r.id \in q[2]}
            changed == {r \in Editable(q[1], q[2]) :
                           MayEdit(q[1], Updated(r, q[3], q[4]))}
        IN Cardinality(named) > 1 =>
               /\ res.code = NoError
               /\ res.table = (itineraries \ changed)
                                 \cup {Updated(r, q[3], q[4]) : r \in changed}

\* C23 (amended): an update that names several itineraries acts on the named
\* rows the acting principal may update as they stand and skips the others,
\* which never make it fail; if the principal may update every row acted on
\* as the update leaves it, exactly those rows are changed, else the statement
\* is refused as a whole (42501) and changes no row.
C23_BulkUpdateSkipsUnauthorized ==
    \A q \in BulkRequests :
        LET res == UpdateItinerariesResult(q[1], q[2], q[3], q[4])
            acted == Editable(q[1], q[2])
        IN /\ res = UpdateItinerariesResult(q[1], {r.id : r \in acted}, q[3], q[4])
           /\ IF \A r \in acted : MayEdit(q[1], Updated(r, q[3], q[4]))
              THEN /\ res.code = NoError
                   /\ res.rows = Cardinality(acted)
                   /\ res.table = (itineraries \ acted)
                                     \cup {Updated(r, q[3], q[4]) : r \in acted}
              ELSE /\ res.code = RlsViolation
                   /\ res.table = itineraries

\* C23 witness: a principal who created one trip and only views another
\* renames both in one statement; one row is changed, the other skipped
C23_Witness ==
    \E i, j \in itineraries : \E p \in Principals :
        /\ IsCreator(p, i) /\ OnlyViewer(p, j)
        /\ i.name = "a" /\ j.name = "a"
        /\ LET res == UpdateItinerariesResult(p, {i.id, j.id}, "b", p)
           IN /\ res.code = NoError /\ res.rows = 1
              /\ j \in res.table /\ i \notin res.table

\* the rows of after that are not rows of before
Written(before, after) == after \ before

\* C24: every row an admitted update writes still passes, for the acting
\* principal, the predicate of the update policy of its table; an activity
\* update that names an itinerary the acting principal neither created nor
\* holds an owner or editor row on changes no row, and is refused with 42501
\* when the principal may write the activity where it is; a collaborator
\* update that names an itinerary the acting principal did not create changes
\* no row, and is refused with 42501 when the principal created the itinerary
\* the row is on.
C24_UpdateKeepsPredicate ==
    \A p \in Principals :
        /\ \A id \in ItineraryIds, n \in Names, cb \in Principals :
              \A r \in Written(itineraries, UpdateItineraryResult(p, id, n, cb).table) :
                  MayEdit(p, r)
        /\ \A id \in ActivityIds, i \in ItineraryIds, cb \in Principals :
              LET res == UpdateActivityResult(p, id, i, cb)
                  mayEditTarget == \E t \in itineraries : t.id = i /\ MayEdit(p, t)
              IN /\ \A r \in Written(activities, res.table) :
                        MayEdit(p, ItineraryOf(r))
                 /\ ~mayEditTarget =>
                        /\ res.table = activities
                        /\ \A a \in activities :
                              (a.id = id /\ MayEdit(p, ItineraryOf(a))) =>
                                  res.code = RlsViolation
        /\ \A id \in CollaboratorIds, i \in ItineraryIds, u \in Principals,
              role \in Roles :
              LET res == UpdateCollaboratorResult(p, id, i, u, role)
                  createdTarget == \E t \in itineraries : t.id = i /\ IsCreator(p, t)
              IN /\ \A r \in Written(collaborators, res.table) :
                        IsCreator(p, ItineraryOf(r))
                 /\ ~createdTarget =>
                        /\ res.table = collaborators
                        /\ \A c \in collaborators :
                              (c.id = id /\ IsCreator(p, ItineraryOf(c))) =>
                                  res.code = RlsViolation

\* C24 witness: an editor of one trip, stranger to another, is refused the
\* move of the first trip's activity to the second, and the creator of the
\* first trip the move of its collaborator row to the second
C24_Witness ==
    \E i, j \in itineraries : \E a \in activities : \E c \in collaborators :
        /\ a.itinerary_id = i.id /\ c.itinerary_id = i.id
        /\ c.role = "editor" /\ ~IsCreator(c.user_id, i)
        /\ Stranger(c.user_id, j) /\ ~IsCreator(i.created_by, j)
        /\ UpdateActivityResult(c.user_id, a.id, j.id, a.created_by).code
              = RlsViolation
        /\ UpdateActivityResult(c.user_id, a.id, i.id, c.user_id).rows = 1
        /\ UpdateCollaboratorResult(i.created_by, c.id, j.id, c.user_id, c.role).code
              = RlsViolation

\* the rows a statement can name or build, per table
ProfileRows == profiles \cup [id : Principals, email : Emails, display_name : Names]
ItineraryRows ==
    itineraries \cup [id : ItineraryIds, name : Names, created_by : Principals,
                      updated_at : Times]
CollaboratorRows ==
    collaborators \cup [id : CollaboratorIds, itinerary_id : ItineraryIds,
                        user_id : Principals, role : Roles]
ActivityRows ==
    activities \cup [id : ActivityIds, itinerary_id : ItineraryIds,
                     created_by : Principals]

\* C25 (as claimed): for every table, every operation, every acting principal
\* and every row, the policies of the second migration allow exactly what the
\* policies of the first migration allow.
C25_MigrationsEquivalent ==
    \A uid \in Principals :
        /\ \A row \in ProfileRows :
              /\ ProfilesSelectUsing(uid, row) <=> ProfilesSelectUsingV1(uid, row)
              /\ ProfilesInsertCheck(uid, row) <=> ProfilesInsertCheckV1(uid, row)
              /\ ProfilesUpdateUsing(uid, row) <=> ProfilesUpdateUsingV1(uid, row)
              /\ ProfilesUpdateCheck(uid, row) <=> ProfilesUpdateCheckV1(uid, row)
        /\ \A row \in ItineraryRows :
              /\ ItinerariesSelectUsing(uid, row) <=> ItinerariesSelectUsingV1(uid, row)
              /\ ItinerariesInsertCheck(uid, row) <=> ItinerariesInsertCheckV1(uid, row)
              /\ ItinerariesUpdateUsing(uid, row) <=> ItinerariesUpdateUsingV1(uid, row)
              /\ ItinerariesUpdateCheck(uid, row) <=> ItinerariesUpdateCheckV1(uid, row)
              /\ ItinerariesDeleteUsing(uid, row) <=> ItinerariesDeleteUsingV1(uid, row)
        /\ \A row \in CollaboratorRows :
              /\ CollaboratorsSelectUsing(uid, row) <=> CollaboratorsSelectUsingV1(uid, row)
              /\ CollaboratorsInsertCheck(uid, row) <=> CollaboratorsInsertCheckV1(uid, row)
              /\ CollaboratorsUpdateUsing(uid, row) <=> CollaboratorsUpdateUsingV1(uid, row)
              /\ CollaboratorsUpdateCheck(uid, row) <=> CollaboratorsUpdateCheckV1(uid, row)
              /\ CollaboratorsDeleteUsing(uid, row) <=> CollaboratorsDeleteUsingV1(uid, row)
        /\ \A row \in ActivityRows :
              /\ ActivitiesSelectUsing(uid, row) <=> ActivitiesSelectUsingV1(uid, row)
              /\ ActivitiesInsertCheck(uid, row) <=> ActivitiesInsertCheckV1(uid, row)
              /\ ActivitiesUpdateUsing(uid, row) <=> ActivitiesUpdateUsingV1(uid, row)
              /\ ActivitiesUpdateCheck(uid, row) <=> ActivitiesUpdateCheckV1(uid, row)
              /\ ActivitiesDeleteUsing(uid, row) <=> ActivitiesDeleteUsingV1(uid, row)

\* how each update and delete of p is answered, whatever row it names
ViewOfWrites(p) ==
    [itineraries |-> ViewOfRows(p).itineraries,
     collaborators |-> ViewOfRows(p).collaborators,
     activities |-> ViewOfRows(p).activities]

\* C26: a principal P who holds an owner row on itinerary I without being its
\* created_by is admitted an update of I and the insert, update and delete of
\* I's activities; P's delete of I and P's insert, role update and delete of
\* collaborator rows of I change nothing (the insert is refused with 42501,
\* the others affect no row); and when P's row is turned into an editor row,
\* every write of P is answered as before.
C26_OwnerRoleIsEditor ==
    /\ [](\A i \in itineraries : \A p \in Principals :
            (HasRole(p, i, {"owner"}) /\ ~IsCreator(p, i)) =>
                /\ \A n \in Names :
                      UpdateItineraryResult(p, i.id, n, i.created_by).rows = 1
                /\ HasFreshId(activities, ActivityIds) =>
                      InsertActivityResult(p, i.id, p).rows = 1
                /\ \A a \in activities :
                      a.itinerary_id = i.id =>
                          /\ UpdateActivityResult(p, a.id, i.id, p).rows = 1
                          /\ DeleteActivityResult(p, a.id).rows = 1
                /\ DeleteItineraryResult(p, i.id) = Result(itineraries, 0, NoError)
                /\ HasFreshId(collaborators, CollaboratorIds) =>
                      \A u \in Principals, role \in Roles :
                          InsertCollaboratorResult(p, i.id, u, role)
                              = Result(collaborators, 0, RlsViolation)
                /\ \A c \in collaborators :
                      c.itinerary_id = i.id =>
                          /\ \A role \in Roles :
                                UpdateCollaboratorResult(p, c.id, i.id, c.user_id, role)
                                    = Result(collaborators, 0, NoError)
                          /\ DeleteCollaboratorResult(p, c.id)
                                = Result(collaborators, 0, NoError))
    /\ [][\A c \in collaborators :
             (/\ c.role = "owner"
              /\ ~IsCreator(c.user_id, ItineraryOf(c))
              /\ collaborators' = (collaborators \ {c})
                                     \cup {[c EXCEPT !.role = "editor"]}) =>
                 /\ ViewOfWrites(c.user_id) = ViewOfWrites(c.user_id)'
                 /\ HasFreshId(collaborators, CollaboratorIds) =>
                       ViewOfCollaboratorInserts(c.user_id)
                           = ViewOfCollaboratorInserts(c.user_id)'
                 /\ HasFreshId(activities, ActivityIds) =>
                       ViewOfActivityInserts(c.user_id)
                           = ViewOfActivityInserts(c.user_id)'
         ]_vars

\* C26 witness: a principal holds an owner row on another principal's trip
\* that has an activity; a collaborator id is free
C26_Witness ==
    \E i \in itineraries : \E p \in Principals : \E a \in activities :
        /\ HasRole(p, i, {"owner"}) /\ ~IsCreator(p, i)
        /\ a.itinerary_id = i.id
        /\ HasFreshId(collaborators, CollaboratorIds)
        /\ DeleteActivityResult(p, a.id).rows = 1
        /\ DeleteItineraryResult(p, i.id).rows = 0
        /\ InsertCollaboratorResult(p, i.id, p, "owner").code = RlsViolation

\* every read, update and activity write of p on itinerary i is denied
Denied(p, i) ==
    /\ i \notin SelectItineraries(p)
    /\ SelectCollaborators(p, i.id) = {}
    /\ SelectActivities(p, i.id) = {}
    /\ \A n \in Names, cb \in Principals :
          UpdateItineraryResult(p, i.id, n, cb) = Result(itineraries, 0, NoError)
    /\ HasFreshId(activities, ActivityIds) =>
          \A cb \in Principals :
              InsertActivityResult(p, i.id, cb) = Result(activities, 0, RlsViolation)
    /\ \A a \in activities :
          a.itinerary_id = i.id =>
              /\ \A cb \in Principals :
                    UpdateActivityResult(p, a.id, i.id, cb)
                        = Result(activities, 0, NoError)
              /\ DeleteActivityResult(p, a.id) = Result(activities, 0, NoError)

\* C27: a principal P who is not the created_by of itinerary I and whose
\* collaborator row on I has been deleted stays denied every read, update and
\* activity write on I for as long as no collaborator row pairs I with P:
\* after every step that leaves I without a row for P, P is denied.
C27_RevocationLasts ==
    [][\A p \in Principals : \A i \in itineraries :
         (/\ ~IsCreator(p, i)
          /\ \E j \in itineraries' : j.id = i.id
          /\ ~\E c \in collaborators' : c.itinerary_id = i.id /\ c.user_id = p) =>
             \A j \in itineraries' : j.id = i.id => Denied(p, j)'
      ]_vars

\* C28: whoever presses the delete button of an activity on an itinerary's
\* page, an activity that handleDeleteActivity removed from the page's local
\* list is no longer in the activities table.
C28_LocalListFollowsStore ==
    \A p \in Principals : \A i \in itineraries :
        \A a \in loadActivities(p, i.id) : \A confirmed \in BOOLEAN :
            LET res == HandleDeleteActivityResult(p, a.id,
                           loadActivities(p, i.id), confirmed)
            IN a \notin res.activities =>
                   ~\E stored \in res.table : stored.id = a.id

\* no collaborator row of the table pairs an itinerary with its created_by
NoCreatorRow(table) ==
    \A c \in table : \A i \in itineraries :
        c.itinerary_id = i.id => c.user_id # i.created_by

\* C29: when collaborators are added only through handleAddCollaborator, by
\* whichever principal on whichever itinerary, no collaborator row pairs an
\* itinerary with its own created_by, and no call of the form stores such a
\* row: a row is inserted only by the itinerary's creator and never for the
\* acting principal.
C29_CreatorNotOwnCollaborator ==
    /\ NoCreatorRow(collaborators)
    /\ HasFreshId(collaborators, CollaboratorIds) =>
          \A q \in FormCalls :
              LET res == HandleAddCollaboratorResult(q[1], q[2], q[3], q[4])
              IN /\ NoCreatorRow(res.table)
                 /\ \A c \in res.table \ collaborators :
                       /\ c.user_id # q[1]
                       /\ \E i \in itineraries :
                             i.id = c.itinerary_id /\ i.created_by = q[1]

\* C29 witness: a creator has added a collaborator through the form, enters
\* their own email and is told they cannot add themself, and a collaborator
\* who enters the creator's email is refused by the insert policy
C29_Witness ==
    \E i \in itineraries : \E c \in collaborators : \E e \in Typed :
        /\ c.itinerary_id = i.id
        /\ HasFreshId(collaborators, CollaboratorIds)
        /\ HandleAddCollaboratorResult(i.created_by, i.id, e, "editor").error
              = SelfMessage
        /\ SelectProfileByEmail(c.user_id, e).data = i.created_by
        /\ HandleAddCollaboratorResult(c.user_id, i.id, e, "editor").inserts = 1
        /\ HandleAddCollaboratorResult(c.user_id, i.id, e, "editor").table
              = collaborators

\* C30 (as claimed): an owner or editor of an itinerary who inserts an
\* activity naming another principal as created_by, or updates an activity
\* of the itinerary to another created_by, is refused and the activities
\* table stays as it was.
C30_ActivityCreatedByIsInserter ==
    \A i \in itineraries : \A p \in Principals :
        MayEdit(p, i) =>
            /\ HasFreshId(activities, ActivityIds) =>
                  \A cb \in Principals \ {p} :
                      LET res == InsertActivityResult(p, i.id, cb)
                      IN res.code # NoError /\ res.table = activities
            /\ \A a \in activities :
                  a.itinerary_id = i.id =>
                      \A cb \in Principals \ {a.created_by} :
                          LET res == UpdateActivityResult(p, a.id, i.id, cb)
                          IN res.code # NoError /\ res.table = activities
====
